---------------------------- MODULE Spec2Model ----------------------------
(***************************************************************************)
(* daily-report-watcher (src/index.js): a scheduled check that reads the   *)
(* members of a user group, scans a report channel for the day's posts,    *)
(* and posts the list of members with no report, threaded under a parent   *)
(* summary message.                                                        *)
(*                                                                         *)
(* Identities, message bodies and display names are sequences of           *)
(* one-character strings, so that the mention pattern is really matched.   *)
(* Instants are epoch seconds; a zone is its fixed offset from UTC in      *)
(* seconds (the default zone, Asia/Tokyo, has had a fixed offset since     *)
(* 1951).                                                                  *)
(***************************************************************************)
EXTENDS Integers, Sequences, FiniteSets, TLC

VARIABLES
    cfg,        \* the module-level configuration read from the environment
    clock,      \* the current instant, epoch seconds (what dayjs() reads)
    slackTs,    \* the timestamp the chat service gives the next message
    channelLog, \* every message the chat service has accepted, in order
    inv,        \* runCheck invocations: id -> the invocation's locals and position
    fnArg,      \* pure-function harness: the argument under test
    fnRet,      \* pure-function harness: the value returned for fnArg
    proc        \* the process: the position of the boot routine, the cron
                \* jobs registered, what was logged, what escaped uncaught

vars == <<cfg, clock, slackTs, channelLog, inv, fnArg, fnRet, proc>>

-----------------------------------------------------------------------------
(* Generic helpers                                                         *)

\* array.filter((u) => !set.has(u)): keep, in order, the elements of s that
\* are not in the set drop.
SelectSeqBy(s, drop) ==
    LET Kept(u) == u \notin drop
    IN  SelectSeq(s, Kept)

Range(s) == {s[k] : k \in DOMAIN s}

Min(a, b) == IF a < b THEN a ELSE b

-----------------------------------------------------------------------------
(* Calendar: what dayjs does for format("YYYY-MM-DD"), add(n, "day"),      *)
(* startOf("day") and dayjs.tz(string, zone) in a fixed-offset zone.       *)

SecondsPerDay == 24 * 60 * 60

\* Proleptic Gregorian date <<y, m, d>> of a day number (days since 1970-01-01).
CivilFromDays(days) ==
    LET z   == days + 719468
        era == z \div 146097
        doe == z - era * 146097
        yoe == (doe - (doe \div 1460) + (doe \div 36524) - (doe \div 146096)) \div 365
        doy == doe - (365 * yoe + (yoe \div 4) - (yoe \div 100))
        mp  == (5 * doy + 2) \div 153
        d   == doy - ((153 * mp + 2) \div 5) + 1
        m   == IF mp < 10 THEN mp + 3 ELSE mp - 9
        y   == yoe + era * 400 + (IF m <= 2 THEN 1 ELSE 0)
    IN  <<y, m, d>>

\* Day number of the date <<y, m, d>>.
DaysFromCivil(ymd) ==
    LET y   == ymd[1] - (IF ymd[2] <= 2 THEN 1 ELSE 0)
        m   == ymd[2]
        d   == ymd[3]
        era == y \div 400
        yoe == y - era * 400
        doy == ((153 * (IF m > 2 THEN m - 3 ELSE m + 9) + 2) \div 5) + d - 1
        doe == yoe * 365 + (yoe \div 4) - (yoe \div 100) + doy
    IN  era * 146097 + doe - 719468

\* The wall-clock reading of instant t in the zone: seconds since the local epoch.
LocalSeconds(t, tz) == t + tz

\* dayjs(...).tz(TZ).format("YYYY-MM-DD")
FormatYMD(t, tz) == CivilFromDays(LocalSeconds(t, tz) \div SecondsPerDay)

\* d.add(n, "day"): same wall-clock time, n calendar days later.
AddDays(t, n) == t + n * SecondsPerDay

\* d.startOf("day") in the zone.
StartOfDay(t, tz) ==
    (LocalSeconds(t, tz) \div SecondsPerDay) * SecondsPerDay - tz

\* dayjs.tz(`${ymd} ${HH}:${mm}`, TZ): the instant whose wall clock in the
\* zone reads that date and time.
ParseInZone(ymd, hhmm, tz) ==
    DaysFromCivil(ymd) * SecondsPerDay + hhmm[1] * 3600 + hhmm[2] * 60 - tz

EndOfDaySentinel == <<23, 59>>

\* A variant that takes the cutoff minute itself as the end: no second is
\* subtracted.
getDayRangeUnixInclusive(now, tz, cutoffTimeHHmm, dayOffset) ==
    LET baseDay == AddDays(now, dayOffset)
        start   == StartOfDay(baseDay, tz)
        parsed  == ParseInZone(FormatYMD(baseDay, tz), cutoffTimeHHmm, tz)
        cutoff1 == IF cutoffTimeHHmm = EndOfDaySentinel THEN parsed + 59 ELSE parsed
        cutoff  == IF cutoff1 < start THEN start + 23 * 3600 + 59 * 60 + 59 ELSE cutoff1
    IN  [reportDate |-> FormatYMD(baseDay, tz), startUnix |-> start, endUnix |-> cutoff]

\* A variant that ignores dayOffset when taking the start of the window.
getDayRangeUnixStartToday(now, tz, cutoffTimeHHmm, dayOffset) ==
    LET baseDay == AddDays(now, dayOffset)
        start   == StartOfDay(now, tz)
        parsed  == ParseInZone(FormatYMD(baseDay, tz), cutoffTimeHHmm, tz)
        cutoff1 == IF cutoffTimeHHmm = EndOfDaySentinel THEN parsed + 59 ELSE parsed - 1
        cutoff  == IF cutoff1 < start THEN start + 23 * 3600 + 59 * 60 + 59 ELSE cutoff1
    IN  [reportDate |-> FormatYMD(baseDay, tz), startUnix |-> start, endUnix |-> cutoff]

\* A variant that parses the cutoff on today's date instead of the base day's.
getDayRangeUnixCutoffToday(now, tz, cutoffTimeHHmm, dayOffset) ==
    LET baseDay == AddDays(now, dayOffset)
        start   == StartOfDay(baseDay, tz)
        parsed  == ParseInZone(FormatYMD(now, tz), cutoffTimeHHmm, tz)
        cutoff1 == IF cutoffTimeHHmm = EndOfDaySentinel THEN parsed + 59 ELSE parsed - 1
        cutoff  == IF cutoff1 < start THEN start + 23 * 3600 + 59 * 60 + 59 ELSE cutoff1
    IN  [reportDate |-> FormatYMD(baseDay, tz), startUnix |-> start, endUnix |-> cutoff]

\* getDayRangeUnix({cutoffTimeHHmm, dayOffset}), with the instant read by
\* dayjs() and the configured zone made explicit.
getDayRangeUnix(now, tz, cutoffTimeHHmm, dayOffset) ==
    LET baseDay == AddDays(now, dayOffset)
        start   == StartOfDay(baseDay, tz)
        parsed  == ParseInZone(FormatYMD(baseDay, tz), cutoffTimeHHmm, tz)
        cutoff1 == IF cutoffTimeHHmm = EndOfDaySentinel THEN parsed + 59 ELSE parsed - 1
        cutoff  == IF cutoff1 < start THEN start + 23 * 3600 + 59 * 60 + 59 ELSE cutoff1
    IN  [reportDate |-> FormatYMD(baseDay, tz), startUnix |-> start, endUnix |-> cutoff]

-----------------------------------------------------------------------------
(* Mention extraction                                                      *)

UpperLetters ==
    {"A", "B", "C", "D", "E", "F", "G", "H", "I", "J", "K", "L", "M",
     "N", "O", "P", "Q", "R", "S", "T", "U", "V", "W", "X", "Y", "Z"}

Digits == {"0", "1", "2", "3", "4", "5", "6", "7", "8", "9"}

\* The character class [A-Z0-9] of mentionRegex.
MentionTokenChars == UpperLetters \cup Digits

RECURSIVE RunEnd(_, _)
\* [A-Z0-9]+ is greedy: the index just after the longest run of class
\* characters that starts at j.
RunEnd(text, j) ==
    IF j <= Len(text) /\ text[j] \in MentionTokenChars
    THEN RunEnd(text, j + 1) ELSE j

\* One attempt to match /<@([A-Z0-9]+)>/ at index k: the index just after
\* the match, or 0 when the pattern does not match there.  The class excludes
\* ">", so backtracking into the run never helps.
MatchAt(text, k) ==
    IF k + 1 <= Len(text) /\ text[k] = "<" /\ text[k + 1] = "@"
    THEN LET e == RunEnd(text, k + 2)
         IN  IF e > k + 2 /\ e <= Len(text) /\ text[e] = ">" THEN e + 1 ELSE 0
    ELSE 0

RECURSIVE matchAll(_, _)
\* [...text.matchAll(mentionRegex)] from index k on: the capture groups of the
\* successive non-overlapping matches, leftmost first.
matchAll(text, k) ==
    IF k > Len(text) THEN <<>>
    ELSE LET e == MatchAt(text, k)
         IN  IF e = 0 THEN matchAll(text, k + 1)
             ELSE <<SubSeq(text, k + 2, e - 2)>> \o matchAll(text, e)

\* null, as returned by extractSubmitterUserId (a token is never empty).
NoSubmitter == <<>>

\* A variant that takes the last mention instead of the first.
extractSubmitterUserIdLast(message) ==
    LET matches == matchAll(message.text, 1)
    IN  IF Len(matches) = 0 THEN NoSubmitter ELSE matches[Len(matches)]

\* extractSubmitterUserId(message); a message with no text has text "".
extractSubmitterUserId(message) ==
    LET matches == matchAll(message.text, 1)
    IN  IF Len(matches) = 0 THEN NoSubmitter ELSE matches[1]

-----------------------------------------------------------------------------
(* Reconciliation (runCheck, steps 1 to 4)                                 *)

RECURSIVE submittersOf(_)
\* The loop that pushes every truthy extracted uid, in message order.
submittersOf(messages) ==
    IF messages = <<>> THEN <<>>
    ELSE LET uid == extractSubmitterUserId(Head(messages))
         IN  (IF uid # NoSubmitter THEN <<uid>> ELSE <<>>) \o submittersOf(Tail(messages))

RECURSIVE uniq(_)
\* [...new Set(array)]: first occurrences, in order.
uniq(array) ==
    IF array = <<>> THEN <<>>
    ELSE LET rest == uniq(SubSeq(array, 1, Len(array) - 1))
             last == array[Len(array)]
         IN  IF last \in Range(rest) THEN rest ELSE Append(rest, last)

\* array.filter((u) => set.has(u))
KeepIn(array, set) ==
    LET Kept(u) == u \in set
    IN  SelectSeq(array, Kept)

\* A variant that forgets the exclusion set.
targetUserIdsOfNoExclude(rawTargetUserIds, excludeSet) == rawTargetUserIds

\* rawTargetUserIds.filter((u) => !EXCLUDE_SET.has(u))
targetUserIdsOf(rawTargetUserIds, excludeSet) == SelectSeqBy(rawTargetUserIds, excludeSet)

\* A variant that accepts every extracted submitter, target or not.
submittedUserIdsOfUnfiltered(messages, targetUserIds) == uniq(submittersOf(messages))

\* uniq(submitters).filter((u) => targetsSet.has(u))
submittedUserIdsOf(messages, targetUserIds) ==
    KeepIn(uniq(submittersOf(messages)), Range(targetUserIds))

\* targetUserIds.filter((u) => !submittedSet.has(u))
missingUserIdsOf(targetUserIds, submittedUserIds) ==
    SelectSeqBy(targetUserIds, Range(submittedUserIds))

-----------------------------------------------------------------------------
(* Name resolution                                                         *)

\* JavaScript's a || b on strings: the first non-empty one.
OrElse(a, b) == IF a # <<>> THEN a ELSE b

\* A variant that prefers the handle to the real names.
displayNameOfHandleFirst(u) ==
    OrElse(u.display_name, OrElse(u.name,
        OrElse(u.profile_real_name, OrElse(u.real_name, u.id))))

\* The name chosen for one directory entry u (which has an id).
displayNameOf(u) ==
    OrElse(u.display_name, OrElse(u.profile_real_name,
        OrElse(u.real_name, OrElse(u.name, u.id))))

RECURSIVE setMembers(_, _)
\* The for-loop of buildUserIdToNameMap over one page: entries without an id
\* are skipped, a later entry for the same id replaces the earlier one.
setMembers(map, members) ==
    IF members = <<>> THEN map
    ELSE LET u == Head(members)
         IN  IF u.id = <<>> THEN setMembers(map, Tail(members))
             ELSE setMembers(
                    [k \in DOMAIN map \cup {u.id} |->
                        IF k = u.id THEN displayNameOf(u) ELSE map[k]],
                    Tail(members))

\* new Map()
EmptyMap == [k \in {} |-> <<>>]

\* idToNameMap.get(uid) || uid
nameOf(uid, idToNameMap) ==
    IF uid \in DOMAIN idToNameMap THEN OrElse(idToNameMap[uid], uid) ELSE uid

\* userIds.map((uid) => idToNameMap.get(uid) || uid)
mapUserIdsToNames(userIds, idToNameMap) ==
    [k \in DOMAIN userIds |-> nameOf(userIds[k], idToNameMap)]

-----------------------------------------------------------------------------
(* Notification texts                                                      *)

chunkSize == 40

\* `<!subteam^${ADMIN_USERGROUP_ID}>` or ""
adminMentionText(adminUsergroupId) ==
    IF adminUsergroupId # "" THEN <<"subteam", adminUsergroupId>> ELSE <<>>

\* A variant whose count stops at the size of one reply.
parentTextOfFirstChunk(adminUsergroupId, label, reportDate, missingUserIds) ==
    [kind |-> "parent", adminMention |-> adminMentionText(adminUsergroupId),
     label |-> label, reportDate |-> reportDate,
     missingCount |-> Min(Len(missingUserIds), chunkSize)]

\* The parent text: the fixed wording with its four interpolated values.
parentTextOf(adminUsergroupId, label, reportDate, missingUserIds) ==
    [kind |-> "parent", adminMention |-> adminMentionText(adminUsergroupId),
     label |-> label, reportDate |-> reportDate,
     missingCount |-> Len(missingUserIds)]

\* The single reply of an empty list.
NobodyText == [kind |-> "nobody"]

\* A variant whose slice always starts at the head of the list.
chunkOfFromHead(missingUserIds, i) ==
    SubSeq(missingUserIds, 1, Min(chunkSize, Len(missingUserIds)))

\* missingUserIds.slice(i, i + chunkSize), i counted from 0.
chunkOf(missingUserIds, i) ==
    SubSeq(missingUserIds, i + 1, Min(i + chunkSize, Len(missingUserIds)))

\* The body of the reply for the chunk that starts at i: the names joined by
\* newlines, after the introductory line when i is 0.
chunkTextOf(missingUserIds, i, idToNameMap) ==
    [kind |-> "chunk", intro |-> (i = 0),
     names |-> mapUserIdsToNames(chunkOf(missingUserIds, i), idToNameMap)]

\* A variant that threads each reply under the message posted just before it.
replyThreadTsOfPrevious(parentTs, i) == parentTs + (i \div chunkSize)

\* A variant that keeps the parent timestamp in one place for all
\* invocations: the reply goes under the parent posted last, by whomever.
replyThreadTsOfLatestParent(parentTs, i) ==
    LET parents == {k \in DOMAIN channelLog : channelLog[k].text.kind = "parent"}
    IN  IF parents = {} THEN parentTs
        ELSE channelLog[CHOOSE k \in parents : \A j \in parents : j <= k].ts

\* thread_ts: parentRes.ts, for the reply sent when the loop index is i.
replyThreadTsOf(parentTs, i) == parentTs

\* A variant that remembers what was notified: once some invocation has
\* posted replies, a later one posts its parent and no reply.
afterParentDeduplicated(missingUserIds) ==
    IF \E k \in DOMAIN channelLog : channelLog[k].text.kind # "parent" THEN "done"
    ELSE IF Len(missingUserIds) = 0 THEN "await_nobody_reply"
    ELSE "await_chunk_reply"

\* A variant without the empty-list case: the loop alone decides.
afterParentNoEmptyCase(missingUserIds) ==
    IF 0 < Len(missingUserIds) THEN "await_chunk_reply" ELSE "done"

\* What follows the parent post: the single reply of an empty list, or the
\* first turn of the chunk loop.
afterParent(missingUserIds) ==
    IF Len(missingUserIds) = 0 THEN "await_nobody_reply"
    ELSE IF 0 < Len(missingUserIds) THEN "await_chunk_reply" ELSE "done"

-----------------------------------------------------------------------------
(* The inputs the collaborators may supply                                 *)

MaxGroupLen == 3
MaxHistoryPages == 2
MaxDirectoryPages == 2

IdA == <<"U", "A">>
IdB == <<"U", "B">>
IdC == <<"U", "C">>
IdZ == <<"U", "Z">>

DigitChars == <<"0", "1", "2", "3", "4", "5", "6", "7", "8", "9">>

\* The k-th member of a large group: U00, U01, ...
BigId(k) == <<"U", DigitChars[(k \div 10) + 1], DigitChars[(k % 10) + 1]>>

\* Group sizes around the chunk boundaries.
BigGroupSizes == {chunkSize, chunkSize + 1, 2 * chunkSize + 1}

SmallIds == {IdA, IdB}

RECURSIVE SeqsUpTo(_, _)
\* Every sequence over S of length at most n (repetitions included).
SeqsUpTo(S, n) ==
    IF n = 0 THEN {<<>>}
    ELSE LET shorter == SeqsUpTo(S, n - 1)
         IN  shorter \cup {Append(q, x) : q \in shorter, x \in S}

\* What usergroups.users.list may return (an absent list reads as empty).
GroupLists ==
    SeqsUpTo(SmallIds, MaxGroupLen)
        \cup {<<IdC, IdA, IdB>>}
        \cup {[k \in 1..n |-> BigId(k - 1)] : n \in BigGroupSizes}

\* The values EXCLUDE_USER_IDS may be configured to.
ExcludeSets == {{}, {IdA}, {IdB, IdZ, BigId(3)}}

Mention(id) == <<"<", "@">> \o id \o <<">">>

\* Report posts: the reporter mentioned first and a colleague after; a post
\* that mentions only somebody outside the group; a post with no mention.
MsgAthenB == [text |-> Mention(IdA) \o <<" ">> \o Mention(IdB)]
MsgZ == [text |-> <<"c", "c", " ">> \o Mention(IdZ)]
MsgPlain == [text |-> <<"o", "k">>]

\* The pages conversations.history may return.
HistoryPages == {<<>>, <<MsgAthenB>>, <<MsgZ, MsgPlain>>, <<MsgPlain, MsgAthenB>>}

User(id, display, profileReal, real, handle) ==
    [id |-> id, display_name |-> display, profile_real_name |-> profileReal,
     real_name |-> real, name |-> handle]

\* Directory entries: a full profile, the same member with only a handle, a
\* member with no name field at all, an entry without id.
UserA == User(IdA, <<"A", "l">>, <<"A", "l", "i">>, <<>>, <<"a">>)
UserAHandle == User(IdA, <<>>, <<>>, <<>>, <<"a">>)
UserB == User(IdB, <<>>, <<>>, <<>>, <<>>)
UserBig == User(BigId(2 * chunkSize), <<>>, <<"B", "i", "g">>, <<>>, <<>>)
UserNoId == User(<<>>, <<"x">>, <<>>, <<>>, <<>>)

\* The pages users.list may return.
DirectoryPages == {<<>>, <<UserA, UserB>>, <<UserNoId, UserAHandle>>, <<UserBig>>}

\* Channel ids.
ReportChannelOut == "C_OUT"

\* The timestamps the chat service may give the first message it accepts.
FirstTimestamps == {1, 5}

\* The instant of a morning run: 2024-01-01 08:00:00 in Asia/Tokyo.
RunInstant == ParseInZone(<<2024, 1, 1>>, <<8, 0>>, 9 * 3600)

-----------------------------------------------------------------------------
(* State                                                                   *)

\* The harness variables, when the pipeline is what runs.
NoCall == [fn |-> "none"]

\* The configurations read from the environment (lines 13-38), the fields
\* that vary given as sets.
Configs(zones, excludeSets, channelsIn, runOnBoot, testChannels) ==
    [TZ : zones, EXCLUDE_SET : excludeSets, ADMIN_USERGROUP_ID : {"SADMIN"},
     REPORT_CHANNEL_OUT : {ReportChannelOut}, CUTOFF_TIME_OUT : {EndOfDaySentinel},
     REPORT_CHANNEL_IN : channelsIn, CUTOFF_TIME_IN : {<<12, 0>>},
     RUN_ON_BOOT : runOnBoot, TEST_NOTIFY_CHANNEL : testChannels]

\* An invocation of runCheck that has not started yet, with the arguments
\* its caller will pass.  caller is "cron" or "boot"; after names the
\* invocation that runs before this one ("" when there is none).
Scheduled(label, reportChannelId, cutoffTime, dayOffset, notifyChannelId) ==
    [pc |-> "scheduled", failedAt |-> "", caller |-> "cron", after |-> "",
     label |-> label, reportChannelId |-> reportChannelId,
     cutoffTime |-> cutoffTime, dayOffset |-> dayOffset,
     notifyChannelId |-> notifyChannelId,
     reportDate |-> <<>>, startUnix |-> 0, endUnix |-> 0,
     rawTargetUserIds |-> <<>>, targetUserIds |-> <<>>,
     messages |-> <<>>, cursor |-> 0,
     submittedUserIds |-> <<>>, missingUserIds |-> <<>>,
     idToNameMap |-> EmptyMap, dirCursor |-> 0,
     parentTs |-> 0, i |-> 0]

\* The cron callback of the check-out direction (scheduleJobs).
OutJob == Scheduled("OUT", ReportChannelOut, EndOfDaySentinel, -1, "")

AwaitStates ==
    {"await_usergroup", "await_history", "await_users",
     "await_parent", "await_nobody_reply", "await_chunk_reply"}

\* The process once the boot routine has returned with the given cron jobs
\* registered and nothing logged.
Registered(jobs) ==
    [main |-> "returned", jobs |-> jobs, warnings |-> {}, errors |-> {},
     uncaught |-> {}]

Init ==
    /\ cfg \in Configs({9 * 3600}, ExcludeSets, {""}, {FALSE}, {""})
    /\ clock = RunInstant
    /\ slackTs \in FirstTimestamps
    /\ channelLog = <<>>
    /\ inv = [id \in {"OUT"} |-> OutJob]
    /\ fnArg = NoCall
    /\ fnRet = NoCall
    /\ proc = Registered({"OUT"})

-----------------------------------------------------------------------------
(* runCheck, one action per resumption                                     *)

\* channel: notifyChannelId || reportChannelId
notifyChannelOf(r) ==
    IF r.notifyChannelId # "" THEN r.notifyChannelId ELSE r.reportChannelId

\* chat.postMessage accepted by the service: the message is in the channel
\* and the response carries its timestamp.
Posted(id, threadTs, text) ==
    [channel |-> notifyChannelOf(inv[id]), thread_ts |-> threadTs,
     ts |-> slackTs, text |-> text, by |-> id]

\* runCheck up to its first await: the window is computed and the group is
\* requested.
Started(r) ==
    LET w == getDayRangeUnix(clock, cfg.TZ, r.cutoffTime, r.dayOffset)
    IN  [r EXCEPT !.pc = "await_usergroup",
                  !.reportDate = w.reportDate,
                  !.startUnix = w.startUnix,
                  !.endUnix = w.endUnix]

\* A callback without the try/catch: the rejection leaves the callback.
catchErrorMissing(p, id, caller) ==
    [p EXCEPT !.uncaught = @ \cup {id}]

\* catch (e) { console.error(...) } around await runCheck: in the cron
\* callbacks, and in the boot routine, whose try block is left.
catchError(p, id, caller) ==
    [p EXCEPT !.errors = @ \cup {id},
              !.main = IF caller = "boot" THEN "returned" ELSE @]

\* runCheck throws: the invocation is over and its caller sees the exception.
Thrown(id, at) ==
    /\ inv' = [inv EXCEPT ![id].pc = "failed", ![id].failedAt = at]
    /\ proc' = catchError(proc, id, inv[id].caller)

\* The scheduler fires a registered job (one firing of a direction after the
\* other): runCheck computes the window and requests the group.
StartCheck(id) ==
    /\ inv[id].pc = "scheduled"
    /\ inv[id].caller = "cron"
    /\ inv[id].label \in proc.jobs
    /\ inv[id].after # "" => inv[inv[id].after].pc \in {"done", "failed"}
    /\ inv' = [inv EXCEPT ![id] = Started(inv[id])]
    /\ UNCHANGED <<cfg, clock, slackTs, channelLog, fnArg, fnRet, proc>>

\* The value of a property the response does not carry.  No list of
\* identities equals it (an identity is a sequence of single characters).
Undefined == <<<<"undefined">>>>

\* A variant without the default: an absent list is returned as it is.
getUserIdsFromUsergroupNoDefault(res) ==
    IF "users" \in DOMAIN res THEN res.users ELSE Undefined

\* res.users || []
getUserIdsFromUsergroup(res) ==
    IF "users" \in DOMAIN res THEN res.users ELSE <<>>

\* What usergroups.users.list may answer: a member list, or no list at all.
GroupResponsesOf(lists) ==
    {[ok |-> TRUE, users |-> l] : l \in lists} \cup {[ok |-> TRUE]}

GroupResponses == GroupResponsesOf(GroupLists)

\* usergroups.users.list answers: exclusions are removed, history is
\* requested.  (Filtering a value that is not a list throws.)
UsergroupAnswers(id, responses) ==
    /\ inv[id].pc = "await_usergroup"
    /\ \E res \in responses :
         LET users == getUserIdsFromUsergroup(res)
         IN  IF users = Undefined
             THEN Thrown(id, "filter")
             ELSE /\ inv' = [inv EXCEPT ![id].pc = "await_history",
                                        ![id].rawTargetUserIds = users,
                                        ![id].targetUserIds =
                                            targetUserIdsOf(users, cfg.EXCLUDE_SET),
                                        ![id].cursor = 0]
                  /\ UNCHANGED proc
    /\ UNCHANGED <<cfg, clock, slackTs, channelLog, fnArg, fnRet>>

UsergroupResponse(id) == UsergroupAnswers(id, GroupResponses)

\* A variant that puts the newer page first.
pushMessagesFront(messages, page) == page \o messages

\* messages.push(...res.messages)
pushMessages(messages, page) == messages \o page

\* A page answered with the cursor of the next one; 0 is a response with no
\* next_cursor (absent or empty).  The service hands out the page numbers
\* as cursors, and at most maxPages pages.
PageResponses(pages, cursor, maxPages) ==
    {[page |-> page, next_cursor |-> next] :
        page \in pages,
        next \in {n \in {0, cursor + 1} : n < maxPages}}

\* A variant that stops at the first page whatever the response carries.
noCursorAlways(cursor) == TRUE

\* if (!cursor) break;
noCursor(cursor) == cursor = 0

\* conversations.history answers the request made with the current cursor.
\* With a next_cursor the next page is requested; without one the submitters
\* are extracted, the missing list is computed and the first directory page
\* is requested.
HistoryAnswers(id, pages, maxPages) ==
    /\ inv[id].pc = "await_history"
    /\ \E res \in PageResponses(pages, inv[id].cursor, maxPages) :
         LET messages == pushMessages(inv[id].messages, res.page)
             cursor == res.next_cursor
             submitted == submittedUserIdsOf(messages, inv[id].targetUserIds)
         IN  inv' = IF noCursor(cursor)
                    THEN [inv EXCEPT ![id].pc = "await_users",
                                     ![id].messages = messages,
                                     ![id].cursor = cursor,
                                     ![id].submittedUserIds = submitted,
                                     ![id].missingUserIds =
                                         missingUserIdsOf(inv[id].targetUserIds, submitted),
                                     ![id].idToNameMap = EmptyMap,
                                     ![id].dirCursor = 0]
                    ELSE [inv EXCEPT ![id].messages = messages,
                                     ![id].cursor = cursor]
    /\ UNCHANGED <<cfg, clock, slackTs, channelLog, fnArg, fnRet, proc>>

HistoryResponse(id) == HistoryAnswers(id, HistoryPages, MaxHistoryPages)

\* users.list answers the request made with the current cursor.  With a
\* next_cursor the next page is requested; without one the map is complete
\* and the parent is posted.
UsersListAnswers(id, pages, maxPages) ==
    /\ inv[id].pc = "await_users"
    /\ \E res \in PageResponses(pages, inv[id].dirCursor, maxPages) :
         LET map == setMembers(inv[id].idToNameMap, res.page)
             cursor == res.next_cursor
         IN  inv' = IF noCursor(cursor)
                    THEN [inv EXCEPT ![id].pc = "await_parent",
                                     ![id].idToNameMap = map,
                                     ![id].dirCursor = cursor]
                    ELSE [inv EXCEPT ![id].idToNameMap = map,
                                     ![id].dirCursor = cursor]
    /\ UNCHANGED <<cfg, clock, slackTs, channelLog, fnArg, fnRet, proc>>

UsersListResponse(id) == UsersListAnswers(id, DirectoryPages, MaxDirectoryPages)

\* The parent post is accepted; the first reply is requested.
ParentPostResponse(id) ==
    /\ inv[id].pc = "await_parent"
    /\ channelLog' = Append(channelLog,
          Posted(id, 0, parentTextOf(cfg.ADMIN_USERGROUP_ID, inv[id].label,
                                     inv[id].reportDate, inv[id].missingUserIds)))
    /\ slackTs' = slackTs + 1
    /\ inv' = [inv EXCEPT ![id].parentTs = slackTs,
                          ![id].i = 0,
                          ![id].pc = afterParent(inv[id].missingUserIds)]
    /\ UNCHANGED <<cfg, clock, fnArg, fnRet, proc>>

\* The reply of an empty list is accepted; postAdminSummaryThreaded returns.
NobodyReplyResponse(id) ==
    /\ inv[id].pc = "await_nobody_reply"
    /\ channelLog' = Append(channelLog,
          Posted(id, replyThreadTsOf(inv[id].parentTs, 0), NobodyText))
    /\ slackTs' = slackTs + 1
    /\ inv' = [inv EXCEPT ![id].pc = "done"]
    /\ UNCHANGED <<cfg, clock, fnArg, fnRet, proc>>

\* The reply for the chunk at i is accepted; i advances by chunkSize and the
\* loop either requests the next reply or ends.
ChunkReplyResponse(id) ==
    /\ inv[id].pc = "await_chunk_reply"
    /\ channelLog' = Append(channelLog,
          Posted(id, replyThreadTsOf(inv[id].parentTs, inv[id].i),
                 chunkTextOf(inv[id].missingUserIds, inv[id].i, inv[id].idToNameMap)))
    /\ slackTs' = slackTs + 1
    /\ inv' = [inv EXCEPT ![id].i = inv[id].i + chunkSize,
                          ![id].pc = IF inv[id].i + chunkSize < Len(inv[id].missingUserIds)
                                     THEN "await_chunk_reply"
                                     ELSE "done"]
    /\ UNCHANGED <<cfg, clock, fnArg, fnRet, proc>>

\* The awaited collaborator call rejects: the exception leaves runCheck and
\* is caught and logged by the caller; nothing further runs.
CollaboratorFails(id) ==
    /\ inv[id].pc \in AwaitStates
    /\ Thrown(id, inv[id].pc)
    /\ UNCHANGED <<cfg, clock, slackTs, channelLog, fnArg, fnRet>>

Next ==
    \/ \E id \in DOMAIN inv : StartCheck(id)
    \/ \E id \in DOMAIN inv : UsergroupResponse(id)
    \/ \E id \in DOMAIN inv : HistoryResponse(id)
    \/ \E id \in DOMAIN inv : UsersListResponse(id)
    \/ \E id \in DOMAIN inv : ParentPostResponse(id)
    \/ \E id \in DOMAIN inv : NobodyReplyResponse(id)
    \/ \E id \in DOMAIN inv : ChunkReplyResponse(id)
    \/ \E id \in DOMAIN inv : CollaboratorFails(id)

Spec == Init /\ [][Next]_vars

-----------------------------------------------------------------------------
(* Several invocations: the cron jobs, and the boot routine.  The          *)
(* collaborators answer from small sets, one page per listing, so that     *)
(* the interleavings of the invocations can all be followed.               *)

JobGroupResponses == GroupResponsesOf({<<IdA>>, <<IdA, IdB>>})
JobHistoryPages == {<<>>, <<MsgAthenB>>}
JobDirectoryPages == {<<UserA, UserB>>}

ReportChannelIn == "C_IN"
TestNotifyChannel == "C_TEST"

\* The jobs scheduleJobs registers: check-out always, check-in when its
\* channel is configured.
scheduleJobs(c) ==
    {"OUT"} \cup (IF c.REPORT_CHANNEL_IN # "" THEN {"IN"} ELSE {})

\* The runCheck calls of the two cron callbacks.
CronOutJob(c) == Scheduled("OUT", c.REPORT_CHANNEL_OUT, c.CUTOFF_TIME_OUT, -1, "")
CronInJob(c) == Scheduled("IN", c.REPORT_CHANNEL_IN, c.CUTOFF_TIME_IN, 0, "")

\* The runCheck calls of the boot routine, the second after the first.
BootOutJob(c) ==
    [Scheduled("OUT(boot)", c.REPORT_CHANNEL_OUT, c.CUTOFF_TIME_OUT, -1,
               c.TEST_NOTIFY_CHANNEL)
        EXCEPT !.caller = "boot"]
BootInJob(c) ==
    [Scheduled("IN(boot)", c.REPORT_CHANNEL_IN, c.CUTOFF_TIME_IN, 0,
               c.TEST_NOTIFY_CHANNEL)
        EXCEPT !.caller = "boot", !.after = "BOOT_OUT"]

\* The process has been started without RUN_ON_BOOT and the boot routine
\* has returned; what is followed is two firings of the check-out job, one
\* after the other, and one firing of the check-in job.
InitCron ==
    /\ cfg \in Configs({9 * 3600}, {{}}, {"", ReportChannelIn}, {FALSE}, {""})
    /\ clock = RunInstant
    /\ slackTs = 1
    /\ channelLog = <<>>
    /\ inv = [id \in {"OUT", "OUT2", "IN"} |->
                CASE id = "OUT" -> CronOutJob(cfg)
                  [] id = "OUT2" -> [CronOutJob(cfg) EXCEPT !.after = "OUT"]
                  [] id = "IN" -> CronInJob(cfg)]
    /\ fnArg = NoCall
    /\ fnRet = NoCall
    /\ proc = Registered(scheduleJobs(cfg))

NextCron ==
    \/ \E id \in DOMAIN inv : StartCheck(id)
    \/ \E id \in DOMAIN inv : UsergroupAnswers(id, JobGroupResponses)
    \/ \E id \in DOMAIN inv : HistoryAnswers(id, JobHistoryPages, 1)
    \/ \E id \in DOMAIN inv : UsersListAnswers(id, JobDirectoryPages, 1)
    \/ \E id \in DOMAIN inv : ParentPostResponse(id)
    \/ \E id \in DOMAIN inv : NobodyReplyResponse(id)
    \/ \E id \in DOMAIN inv : ChunkReplyResponse(id)
    \/ \E id \in DOMAIN inv : CollaboratorFails(id)

SpecCron == InitCron /\ [][NextCron]_vars

\* The process is about to run the boot routine; what is followed is the
\* boot routine with its two checks and one firing of the check-out job.
InitBoot ==
    /\ cfg \in Configs({9 * 3600}, {{}}, {"", ReportChannelIn}, BOOLEAN,
                       {"", TestNotifyChannel, ReportChannelOut})
    /\ clock = RunInstant
    /\ slackTs = 1
    /\ channelLog = <<>>
    /\ inv = [id \in {"OUT", "BOOT_OUT", "BOOT_IN"} |->
                CASE id = "OUT" -> CronOutJob(cfg)
                  [] id = "BOOT_OUT" -> BootOutJob(cfg)
                  [] id = "BOOT_IN" -> BootInJob(cfg)]
    /\ fnArg = NoCall
    /\ fnRet = NoCall
    /\ proc = [main |-> "boot", jobs |-> {}, warnings |-> {}, errors |-> {},
               uncaught |-> {}]

\* A variant that runs the boot test whatever the configuration.
bootTestAllowedAlways(c) == TRUE

\* if (!TEST_NOTIFY_CHANNEL) { console.warn(...); return; }
bootTestAllowed(c) == c.TEST_NOTIFY_CHANNEL # ""

\* The boot routine up to its first await: the jobs are registered; with
\* RUN_ON_BOOT, either the boot test is skipped with a warning or the
\* check-out boot check is started.
BootRoutine ==
    /\ proc.main = "boot"
    /\ IF ~cfg.RUN_ON_BOOT
       THEN /\ proc' = [proc EXCEPT !.main = "returned", !.jobs = scheduleJobs(cfg)]
            /\ UNCHANGED inv
       ELSE IF ~bootTestAllowed(cfg)
       THEN /\ proc' = [proc EXCEPT !.main = "returned", !.jobs = scheduleJobs(cfg),
                                    !.warnings = @ \cup {"skip boot test"}]
            /\ UNCHANGED inv
       ELSE /\ proc' = [proc EXCEPT !.main = "await_boot_out", !.jobs = scheduleJobs(cfg)]
            /\ inv' = [inv EXCEPT !["BOOT_OUT"] = Started(@)]
    /\ UNCHANGED <<cfg, clock, slackTs, channelLog, fnArg, fnRet>>

\* The check-out boot check has returned: the check-in boot check is
\* started, or skipped with a warning when no check-in channel is configured.
BootOutReturns ==
    /\ proc.main = "await_boot_out"
    /\ inv["BOOT_OUT"].pc = "done"
    /\ IF cfg.REPORT_CHANNEL_IN # ""
       THEN /\ proc' = [proc EXCEPT !.main = "await_boot_in"]
            /\ inv' = [inv EXCEPT !["BOOT_IN"] = Started(@)]
       ELSE /\ proc' = [proc EXCEPT !.main = "returned",
                                    !.warnings = @ \cup {"skip IN boot test"}]
            /\ UNCHANGED inv
    /\ UNCHANGED <<cfg, clock, slackTs, channelLog, fnArg, fnRet>>

\* The check-in boot check has returned: the boot routine is over.
BootInReturns ==
    /\ proc.main = "await_boot_in"
    /\ inv["BOOT_IN"].pc = "done"
    /\ proc' = [proc EXCEPT !.main = "returned"]
    /\ UNCHANGED <<cfg, clock, slackTs, channelLog, inv, fnArg, fnRet>>

NextBoot ==
    \/ BootRoutine
    \/ BootOutReturns
    \/ BootInReturns
    \/ \E id \in DOMAIN inv : StartCheck(id)
    \/ \E id \in DOMAIN inv : UsergroupAnswers(id, JobGroupResponses)
    \/ \E id \in DOMAIN inv : HistoryAnswers(id, JobHistoryPages, 1)
    \/ \E id \in DOMAIN inv : UsersListAnswers(id, JobDirectoryPages, 1)
    \/ \E id \in DOMAIN inv : ParentPostResponse(id)
    \/ \E id \in DOMAIN inv : NobodyReplyResponse(id)
    \/ \E id \in DOMAIN inv : ChunkReplyResponse(id)
    \/ \E id \in DOMAIN inv : CollaboratorFails(id)

SpecBoot == InitBoot /\ [][NextBoot]_vars

-----------------------------------------------------------------------------
(* getDayRangeUnix on its own: every cutoff, at instants around month,     *)
(* year and leap-day boundaries, in several zones.                         *)

MaxDayOffset == 1

DayOffsets == (0 - MaxDayOffset - 1) .. MaxDayOffset

CutoffTimes == {<<h, m>> : h \in 0..23, m \in {0, 1, 30, 59}}

\* Fixed UTC offsets: Asia/Tokyo, UTC, UTC-5, UTC+5:30.
Zones == {9 * 3600, 0, 0 - 5 * 3600, 5 * 3600 + 1800}

WindowInstants ==
    {DaysFromCivil(d) * SecondsPerDay + s :
        d \in {<<2023, 12, 31>>, <<2024, 1, 1>>, <<2024, 2, 28>>,
               <<2024, 2, 29>>, <<2024, 3, 1>>},
        s \in {0, 8 * 3600, SecondsPerDay - 1}}

InitWindow ==
    /\ cfg \in Configs(Zones, {{}}, {""}, {FALSE}, {""})
    /\ clock \in WindowInstants
    /\ slackTs = 1
    /\ channelLog = <<>>
    /\ inv = [id \in {} |-> OutJob]
    /\ fnArg \in [fn : {"getDayRangeUnix"}, cutoffTimeHHmm : CutoffTimes]
    /\ fnRet = NoCall
    /\ proc = Registered({})

\* getDayRangeUnix is called with the cutoff, once per dayOffset, at the
\* same instant.
CallGetDayRangeUnix ==
    /\ fnArg.fn = "getDayRangeUnix"
    /\ fnRet = NoCall
    /\ fnRet' = [fn |-> "getDayRangeUnix",
                 window |-> [d \in DayOffsets |->
                     getDayRangeUnix(clock, cfg.TZ, fnArg.cutoffTimeHHmm, d)]]
    /\ UNCHANGED <<cfg, clock, slackTs, channelLog, inv, fnArg, proc>>

NextWindow == CallGetDayRangeUnix

SpecWindow == InitWindow /\ [][NextWindow]_vars

-----------------------------------------------------------------------------
(* extractSubmitterUserId on its own: every body made of a few fragments.  *)

MaxFragments == 6

TextFragments == {<<"<", "@">>, <<"<">>, <<">">>, <<"U">>, <<"7">>, <<"a">>}

RECURSIVE Texts(_)
\* Every concatenation of at most n fragments.
Texts(n) ==
    IF n = 0 THEN {<<>>}
    ELSE LET shorter == Texts(n - 1)
         IN  shorter \cup {t \o f : t \in shorter, f \in TextFragments}

InitExtract ==
    /\ cfg \in Configs({9 * 3600}, {{}}, {""}, {FALSE}, {""})
    /\ clock = RunInstant
    /\ slackTs = 1
    /\ channelLog = <<>>
    /\ inv = [id \in {} |-> OutJob]
    /\ fnArg \in [fn : {"extractSubmitterUserId"}, message : [text : Texts(MaxFragments)]]
    /\ fnRet = NoCall
    /\ proc = Registered({})

CallExtractSubmitterUserId ==
    /\ fnArg.fn = "extractSubmitterUserId"
    /\ fnRet = NoCall
    /\ fnRet' = [fn |-> "extractSubmitterUserId",
                 uid |-> extractSubmitterUserId(fnArg.message),
                 submitters |-> submittersOf(<<fnArg.message>>)]
    /\ UNCHANGED <<cfg, clock, slackTs, channelLog, inv, fnArg, proc>>

NextExtract == CallExtractSubmitterUserId

SpecExtract == InitExtract /\ [][NextExtract]_vars

-----------------------------------------------------------------------------
(* fetchAllMessagesInRange on its own, against a service that serves a     *)
(* fixed chain of pages: the request without cursor is answered with the   *)
(* first page, the request with cursor c with page c, and every page but   *)
(* the last carries the cursor of the next.  The last page carries the     *)
(* cursor `last`: none (0), or the cursor of a page of the chain, which    *)
(* makes a listing that never ends.                                        *)

MaxChain == 3
MaxRequests == 5

InitFetch ==
    /\ cfg \in Configs({9 * 3600}, {{}}, {""}, {FALSE}, {""})
    /\ clock = RunInstant
    /\ slackTs = 1
    /\ channelLog = <<>>
    /\ inv = [id \in {} |-> OutJob]
    /\ \E chain \in SeqsUpTo(HistoryPages, MaxChain) \ {<<>>} :
       \E last \in 0..Len(chain) :
          fnArg = [fn |-> "fetchAllMessagesInRange", chain |-> chain, last |-> last]
    /\ fnRet = NoCall
    /\ proc = Registered({})

\* The response to a history request made with the given cursor.
ServedPage(chain, last, cursor) ==
    LET k == IF cursor = 0 THEN 1 ELSE cursor
    IN  [page |-> chain[k],
         next_cursor |-> IF k < Len(chain) THEN k + 1 ELSE last]

\* The call: the first request is made without cursor.  requests are the
\* cursors sent so far, received the next_cursor of each response.
CallFetchAllMessagesInRange ==
    /\ fnArg.fn = "fetchAllMessagesInRange"
    /\ fnRet = NoCall
    /\ fnRet' = [fn |-> "fetchAllMessagesInRange", pc |-> "await_history",
                 messages |-> <<>>, cursor |-> 0,
                 requests |-> <<0>>, received |-> <<>>]
    /\ UNCHANGED <<cfg, clock, slackTs, channelLog, inv, fnArg, proc>>

\* One turn of the loop: the response arrives, its messages are appended,
\* and either the loop is left or the next request is made with the cursor
\* just received.  (The code's loop has no bound; the model stops following
\* it after MaxRequests requests.)
FetchPageResponse ==
    /\ fnArg.fn = "fetchAllMessagesInRange"
    /\ fnRet # NoCall
    /\ fnRet.pc = "await_history"
    /\ LET res == ServedPage(fnArg.chain, fnArg.last, fnRet.cursor)
           messages == pushMessages(fnRet.messages, res.page)
           cursor == res.next_cursor
       IN  IF noCursor(cursor)
           THEN fnRet' = [fnRet EXCEPT !.pc = "returned",
                                       !.messages = messages,
                                       !.cursor = cursor,
                                       !.received = Append(@, res.next_cursor)]
           ELSE /\ Len(fnRet.requests) < MaxRequests
                /\ fnRet' = [fnRet EXCEPT !.messages = messages,
                                          !.cursor = cursor,
                                          !.requests = Append(@, cursor),
                                          !.received = Append(@, res.next_cursor)]
    /\ UNCHANGED <<cfg, clock, slackTs, channelLog, inv, fnArg, proc>>

NextFetch ==
    \/ CallFetchAllMessagesInRange
    \/ FetchPageResponse

SpecFetch == InitFetch /\ [][NextFetch]_vars

-----------------------------------------------------------------------------
(* The name map on its own: directories of a few entries with every        *)
(* combination of present and absent name fields, and the names then       *)
(* written for three identities.                                           *)

MaxEntries == 2

\* Directory entries: no id or one of two ids, each name field absent or
\* holding a value of its own.
NameCases ==
    {User(id, d, p, r, h) :
        id \in {<<>>, IdA, IdB},
        d \in {<<>>, <<"d">>}, p \in {<<>>, <<"p">>},
        r \in {<<>>, <<"r">>}, h \in {<<>>, <<"h">>}}

InitNames ==
    /\ cfg \in Configs({9 * 3600}, {{}}, {""}, {FALSE}, {""})
    /\ clock = RunInstant
    /\ slackTs = 1
    /\ channelLog = <<>>
    /\ inv = [id \in {} |-> OutJob]
    /\ fnArg \in [fn : {"buildUserIdToNameMap"},
                  members : SeqsUpTo(NameCases, MaxEntries),
                  userIds : {<<IdA, IdB, IdC>>}]
    /\ fnRet = NoCall
    /\ proc = Registered({})

\* The map is built from the members listed, then the names are looked up.
CallBuildUserIdToNameMap ==
    /\ fnArg.fn = "buildUserIdToNameMap"
    /\ fnRet = NoCall
    /\ LET map == setMembers(EmptyMap, fnArg.members)
       IN  fnRet' = [fn |-> "buildUserIdToNameMap", map |-> map,
                     names |-> mapUserIdsToNames(fnArg.userIds, map)]
    /\ UNCHANGED <<cfg, clock, slackTs, channelLog, inv, fnArg, proc>>

NextNames == CallBuildUserIdToNameMap

SpecNames == InitNames /\ [][NextNames]_vars

-----------------------------------------------------------------------------
(* Claims about the window                                                 *)

WindowDone == fnRet # NoCall /\ fnRet.fn = "getDayRangeUnix"

\* Local midnight of the day on which instant t falls in the zone: t less
\* the time elapsed since the wall clock last read 00:00:00.
LocalMidnight(t, tz) == t - ((t + tz) % SecondsPerDay)

HoursMinutes(hhmm) == hhmm[1] * 3600 + hhmm[2] * 60

EndOfDay == 23 * 3600 + 59 * 60 + 59

\* C3 as stated: for every cutoff other than 23:59, 00:00 included, the
\* dayOffset 0 window ends at local midnight of today plus the cutoff less
\* one second.
C3_EndIsCutoffMinusOneSecond ==
    (WindowDone /\ fnArg.cutoffTimeHHmm # EndOfDaySentinel) =>
        fnRet.window[0].endUnix =
            LocalMidnight(clock, cfg.TZ) + HoursMinutes(fnArg.cutoffTimeHHmm) - 1

\* C3 as amended: for every cutoff other than 23:59 and other than 00:00 the
\* dayOffset 0 window ends at local midnight of today plus the cutoff less one
\* second; for 00:00 it ends at 23:59:59 of today.
C3_EndIsCutoffMinusOneSecondExceptMidnight ==
    (WindowDone /\ fnArg.cutoffTimeHHmm # EndOfDaySentinel) =>
        fnRet.window[0].endUnix =
            IF fnArg.cutoffTimeHHmm = <<0, 0>>
            THEN LocalMidnight(clock, cfg.TZ) + EndOfDay
            ELSE LocalMidnight(clock, cfg.TZ) + HoursMinutes(fnArg.cutoffTimeHHmm) - 1

\* A midday cutoff has been applied, late in the local day.
C3_Witness ==
    /\ WindowDone
    /\ fnArg.cutoffTimeHHmm = <<12, 0>>
    /\ (clock + cfg.TZ) % SecondsPerDay = SecondsPerDay - 1
    /\ fnRet.window[0].endUnix < clock

\* C4: for every cutoff and every dayOffset, start <= end, start is local
\* midnight of the day named by reportDate, and when the cutoff-adjusted end
\* would precede start, end is 23:59:59 of the base day.
C4_StartBeforeEndAtMidnight ==
    WindowDone =>
        \A d \in DayOffsets :
            LET w == fnRet.window[d]
                adjusted == ParseInZone(w.reportDate, fnArg.cutoffTimeHHmm, cfg.TZ)
                            + (IF fnArg.cutoffTimeHHmm = EndOfDaySentinel THEN 59 ELSE 0 - 1)
            IN  /\ w.startUnix <= w.endUnix
                /\ w.startUnix = ParseInZone(w.reportDate, <<0, 0>>, cfg.TZ)
                /\ w.reportDate = FormatYMD(w.startUnix, cfg.TZ)
                /\ w.startUnix = LocalMidnight(clock, cfg.TZ) + d * SecondsPerDay
                /\ adjusted < w.startUnix => w.endUnix = w.startUnix + EndOfDay

\* The clamp has acted: cutoff 00:00, whose adjusted end is the last second
\* of the day before.
C4_Witness ==
    /\ WindowDone
    /\ fnArg.cutoffTimeHHmm = <<0, 0>>
    /\ fnRet.window[0 - 1].reportDate = <<2024, 2, 29>>
    /\ fnRet.window[0 - 1].endUnix = fnRet.window[0 - 1].startUnix + EndOfDay

\* C5: at the same instant and for the same cutoff, the dayOffset -1 window
\* is the dayOffset 0 window shifted back by exactly one day, and both its
\* ends lie on the calendar day before the day of the dayOffset 0 window.
C5_PreviousDayWindow ==
    WindowDone =>
        LET w0 == fnRet.window[0]
            w1 == fnRet.window[0 - 1]
        IN  /\ w1.startUnix = w0.startUnix - SecondsPerDay
            /\ w1.endUnix = w0.endUnix - SecondsPerDay
            /\ DaysFromCivil(FormatYMD(w1.startUnix, cfg.TZ)) + 1
                   = DaysFromCivil(FormatYMD(w0.startUnix, cfg.TZ))
            /\ FormatYMD(w1.endUnix, cfg.TZ) = FormatYMD(w1.startUnix, cfg.TZ)
            /\ FormatYMD(w0.endUnix, cfg.TZ) = FormatYMD(w0.startUnix, cfg.TZ)
            /\ w1.reportDate = FormatYMD(w1.startUnix, cfg.TZ)

\* The previous day is in another year: a run on 2024-01-01 with the
\* end-of-day cutoff.
C5_Witness ==
    /\ WindowDone
    /\ fnArg.cutoffTimeHHmm = EndOfDaySentinel
    /\ fnRet.window[0].reportDate = <<2024, 1, 1>>
    /\ fnRet.window[0 - 1].reportDate = <<2023, 12, 31>>

-----------------------------------------------------------------------------
(* Claims about extraction                                                 *)

ExtractDone == fnRet # NoCall /\ fnRet.fn = "extractSubmitterUserId"

LowerLetters ==
    {"a", "b", "c", "d", "e", "f", "g", "h", "i", "j", "k", "l", "m",
     "n", "o", "p", "q", "r", "s", "t", "u", "v", "w", "x", "y", "z"}

Alphanumerics == UpperLetters \cup LowerLetters \cup Digits

\* The places <<k, e>> where text[k..e] reads "<@", a non-empty token made
\* of characters of the class, ">".
MentionsIn(text, class) ==
    {p \in (1..Len(text)) \X (1..Len(text)) :
        /\ p[1] + 3 <= p[2]
        /\ text[p[1]] = "<"
        /\ text[p[1] + 1] = "@"
        /\ text[p[2]] = ">"
        /\ \A k \in (p[1] + 2)..(p[2] - 1) : text[k] \in class}

\* The token of the leftmost mention, or no submitter.
FirstMentionToken(text, class) ==
    LET ms == MentionsIn(text, class)
    IN  IF ms = {} THEN NoSubmitter
        ELSE LET first == CHOOSE p \in ms : \A q \in ms : p[1] <= q[1]
             IN  SubSeq(text, first[1] + 2, first[2] - 1)

\* C10 as stated: the result is the token of the first <@TOKEN> whose token
\* is alphanumeric, and no submitter when the body has no such mention.
C10_FirstAlphanumericMention ==
    ExtractDone =>
        fnRet.uid = FirstMentionToken(fnArg.message.text, Alphanumerics)

\* C10 as amended: the result is the token of the first <@TOKEN> whose token
\* is made of upper-case letters and digits only, whatever mentions follow;
\* with no such mention there is no submitter and the message adds nothing to
\* the submitters.
C10_FirstUpperCaseMention ==
    ExtractDone =>
        /\ fnRet.uid = FirstMentionToken(fnArg.message.text, MentionTokenChars)
        /\ fnRet.uid = NoSubmitter => fnRet.submitters = <<>>
        /\ fnRet.uid # NoSubmitter => fnRet.submitters = <<fnRet.uid>>

\* A body with two mentions of different people has been read.
C10_Witness ==
    /\ ExtractDone
    /\ fnArg.message.text = <<"<", "@", "U", ">", "<", "@", "7", ">">>
    /\ fnRet.uid = <<"U">>

-----------------------------------------------------------------------------
(* Claims about one invocation                                             *)

\* The messages of the channel log that invocation id posted, in order.
PostsBy(id) ==
    LET Mine(m) == m.by = id
    IN  SelectSeq(channelLog, Mine)

\* The positions at which the missing list has been computed.
Reconciled ==
    {"await_users", "await_parent", "await_nobody_reply", "await_chunk_reply", "done"}

\* The positions at which postAdminSummaryThreaded has been called.
Publishing == {"await_parent", "await_nobody_reply", "await_chunk_reply", "done"}

\* out is the subsequence of s, in s's order, of the elements outside the
\* set drop: each kept element sits at the position given by the number of
\* kept elements up to it, and there is nothing else.
IsWithout(out, s, drop) ==
    LET keep == {k \in DOMAIN s : s[k] \notin drop}
    IN  /\ Len(out) = Cardinality(keep)
        /\ \A k \in keep : out[Cardinality({k2 \in keep : k2 <= k})] = s[k]

\* The identities that are the first mention of some message.
ExtractedFrom(messages) ==
    {FirstMentionToken(m.text, MentionTokenChars) : m \in Range(messages)} \ {NoSubmitter}

\* C1 as stated: an invocation in which a collaborator call failed has posted
\* no message at all.
C1_FailedInvocationPostedNothing ==
    \A id \in DOMAIN inv :
        inv[id].pc = "failed" => PostsBy(id) = <<>>

\* C2: the missing list handed to the publisher is the subsequence of the
\* group list G, in G's order, of the identities that are neither excluded
\* nor the extracted submitter of a message of the window; it holds no
\* excluded identity and no identity outside G.
C2_MissingIsGroupMinusExcludedMinusSubmitted ==
    \A id \in DOMAIN inv :
        inv[id].pc \in Reconciled =>
            /\ IsWithout(inv[id].missingUserIds, inv[id].rawTargetUserIds,
                         cfg.EXCLUDE_SET \cup ExtractedFrom(inv[id].messages))
            /\ Range(inv[id].missingUserIds) \cap cfg.EXCLUDE_SET = {}
            /\ Range(inv[id].missingUserIds) \subseteq Range(inv[id].rawTargetUserIds)

\* The scenario group with one member excluded and one submitted: the third
\* is handed to the publisher.
C2_Witness ==
    \E id \in DOMAIN inv :
        /\ inv[id].pc = "await_parent"
        /\ inv[id].rawTargetUserIds = <<IdC, IdA, IdB>>
        /\ IdB \in cfg.EXCLUDE_SET
        /\ MsgAthenB \in Range(inv[id].messages)
        /\ inv[id].missingUserIds = <<IdC>>

\* C6: with T the targets and S everything extracted, the missing list is
\* the one computed from (T, S) and the one computed from (T, S \cap T), and
\* the submitted set in use is a subset of T.
C6_ReconcileIgnoresNonTargets ==
    \A id \in DOMAIN inv :
        inv[id].pc \in Reconciled =>
            LET T == inv[id].targetUserIds
                S == ExtractedFrom(inv[id].messages)
            IN  /\ IsWithout(inv[id].missingUserIds, T, S)
                /\ IsWithout(inv[id].missingUserIds, T, S \cap Range(T))
                /\ Range(inv[id].submittedUserIds) \subseteq Range(T)
                /\ Range(inv[id].submittedUserIds) = S \cap Range(T)

\* A post whose first mention is somebody outside the targets has been read
\* next to a real submission, and the check went on to publish.
C6_Witness ==
    \E id \in DOMAIN inv :
        /\ inv[id].pc \in Publishing
        /\ IdZ \in ExtractedFrom(inv[id].messages)
        /\ inv[id].submittedUserIds = <<IdA>>
        /\ inv[id].missingUserIds = <<IdB>>

-----------------------------------------------------------------------------
(* Claims about the publisher                                              *)

\* The chunk replies among the posts of invocation id, in order.
ChunkRepliesBy(id) ==
    LET IsChunk(m) == m.by = id /\ m.text.kind = "chunk"
    IN  SelectSeq(channelLog, IsChunk)

\* The display name written for uid.
ShownName(uid, map) == IF uid \in DOMAIN map THEN map[uid] ELSE uid

RECURSIVE NamesOfReplies(_)
\* The names of a sequence of chunk replies, one after the other.
NamesOfReplies(replies) ==
    IF replies = <<>> THEN <<>>
    ELSE Head(replies).text.names \o NamesOfReplies(Tail(replies))

\* C7: for a non-empty missing list of length n, reply k (from 0) lists the
\* names of missing[40k .. 40k+39] in order and only reply 0 has the
\* introductory line; once the publisher has returned there are exactly
\* ceil(n/40) replies, and their names, put end to end, are the names of the
\* missing list in its order.
C7_ChunkReplies ==
    \A id \in DOMAIN inv :
        (inv[id].pc \in Publishing /\ Len(inv[id].missingUserIds) > 0) =>
            LET missing == inv[id].missingUserIds
                n == Len(missing)
                replies == ChunkRepliesBy(id)
            IN  /\ \A r \in DOMAIN replies :
                      LET names == replies[r].text.names
                          from == chunkSize * (r - 1)
                      IN  /\ from < n
                          /\ Len(names) = Min(chunkSize, n - from)
                          /\ \A j \in DOMAIN names :
                                names[j] = ShownName(missing[from + j], inv[id].idToNameMap)
                          /\ replies[r].text.intro = (r = 1)
                /\ inv[id].pc = "done" =>
                      /\ Len(replies) = (n + chunkSize - 1) \div chunkSize
                      /\ NamesOfReplies(replies) =
                            [j \in 1..n |-> ShownName(missing[j], inv[id].idToNameMap)]
                      /\ Len(PostsBy(id)) = Len(replies) + 1

\* A list of 81 has been published in three replies, the last with one name,
\* which the directory resolved.
C7_Witness ==
    \E id \in DOMAIN inv :
        /\ inv[id].pc = "done"
        /\ Len(inv[id].missingUserIds) = 2 * chunkSize + 1
        /\ Len(ChunkRepliesBy(id)) = 3
        /\ ChunkRepliesBy(id)[3].text.names = <<<<"B", "i", "g">>>>

\* C8: an invocation that has posted anything posted one non-threaded
\* message, the parent, first; every later post of it is a reply in the
\* parent's channel whose thread timestamp is the timestamp the service
\* returned for that parent.
C8_OneParentRepliesThreaded ==
    \A id \in DOMAIN inv :
        LET posts == PostsBy(id)
        IN  /\ inv[id].pc \in (Publishing \ {"await_parent"}) => Len(posts) >= 1
            /\ posts # <<>> =>
                  /\ posts[1].text.kind = "parent"
                  /\ posts[1].thread_ts = 0
                  /\ posts[1].ts = inv[id].parentTs
                  /\ \A k \in 2..Len(posts) :
                        /\ posts[k].text.kind # "parent"
                        /\ posts[k].thread_ts = posts[1].ts
                        /\ posts[k].channel = posts[1].channel
                        /\ posts[k].ts > posts[1].ts

\* A parent and two chunk replies are in the channel.
C8_Witness ==
    \E id \in DOMAIN inv :
        /\ Len(PostsBy(id)) >= 3
        /\ PostsBy(id)[3].thread_ts = PostsBy(id)[1].ts
        /\ PostsBy(id)[3].text.kind = "chunk"

\* C9: with an empty missing list no chunk reply is ever posted, and once the
\* publisher has returned exactly two messages are in the channel: the parent
\* with missing count 0, then one reply saying nobody is outstanding.
C9_EmptyListTwoMessages ==
    \A id \in DOMAIN inv :
        (inv[id].pc \in Publishing /\ inv[id].missingUserIds = <<>>) =>
            LET posts == PostsBy(id)
            IN  /\ ChunkRepliesBy(id) = <<>>
                /\ Len(posts) <= 2
                /\ inv[id].pc = "done" =>
                      /\ Len(posts) = 2
                      /\ posts[1].text.kind = "parent"
                      /\ posts[1].text.missingCount = 0
                      /\ posts[1].thread_ts = 0
                      /\ posts[2].text = NobodyText
                      /\ posts[2].thread_ts = posts[1].ts

\* Everybody of a non-empty group has submitted or is excluded, and the
\* publisher has returned.
C9_Witness ==
    \E id \in DOMAIN inv :
        /\ inv[id].pc = "done"
        /\ inv[id].rawTargetUserIds # <<>>
        /\ inv[id].submittedUserIds # <<>>
        /\ inv[id].missingUserIds = <<>>
        /\ Len(PostsBy(id)) = 2

-----------------------------------------------------------------------------
(* Claims about the count and about an empty group                         *)

\* The replies of an invocation that say nobody is outstanding.
NobodyRepliesBy(id) ==
    LET IsNobody(m) == m.by = id /\ m.text.kind = "nobody"
    IN  SelectSeq(channelLog, IsNobody)

\* C19: once the publish sequence of an invocation has completed, the
\* missing count written in its parent is the number of names listed over
\* all its chunk replies, and the count is 0 exactly when the single reply
\* saying nobody is outstanding was posted (and then no chunk reply was).
C19_CountIsNamesListed ==
    \A id \in DOMAIN inv :
        inv[id].pc = "done" =>
            LET parent == PostsBy(id)[1]
                nobody == NobodyRepliesBy(id)
            IN  /\ parent.text.kind = "parent"
                /\ parent.text.missingCount = Len(NamesOfReplies(ChunkRepliesBy(id)))
                /\ (parent.text.missingCount = 0) <=> (Len(nobody) = 1)
                /\ Len(nobody) <= 1
                /\ nobody # <<>> => ChunkRepliesBy(id) = <<>>

\* A count of 41 has been published with 40 names in one reply and 1 in the
\* next.
C19_Witness ==
    \E id \in DOMAIN inv :
        /\ inv[id].pc = "done"
        /\ PostsBy(id)[1].text.missingCount = chunkSize + 1
        /\ Len(ChunkRepliesBy(id)) = 2
        /\ Len(ChunkRepliesBy(id)[2].text.names) = 1

\* C20: when the group call has answered and no target is left (the list
\* was empty or absent, or every member is excluded), the invocation fails
\* only if a later collaborator call fails: it goes on to request history
\* and the directory, its missing list is empty, and once it has published
\* the channel holds its parent with missing count 0 followed by the reply
\* saying nobody is outstanding.
C20_EmptyGroupStillPublishes ==
    \A id \in DOMAIN inv :
        LET r == inv[id]
        IN  (/\ r.targetUserIds = <<>>
             /\ r.pc \notin {"scheduled", "await_usergroup"}
             /\ r.failedAt # "await_usergroup") =>
                /\ r.pc = "failed" => r.failedAt \in (AwaitStates \ {"await_usergroup"})
                /\ r.pc = "await_history" => ENABLED HistoryResponse(id)
                /\ r.pc = "await_users" => ENABLED UsersListResponse(id)
                /\ r.pc \in Reconciled => r.missingUserIds = <<>>
                /\ r.pc = "done" =>
                      LET posts == PostsBy(id)
                      IN  /\ Len(posts) = 2
                          /\ posts[1].text.kind = "parent"
                          /\ posts[1].text.missingCount = 0
                          /\ posts[2].text = NobodyText

\* The group call returned no member; history and the directory were
\* fetched all the same, and the two messages are in the channel.
C20_Witness ==
    \E id \in DOMAIN inv :
        /\ inv[id].pc = "done"
        /\ inv[id].rawTargetUserIds = <<>>
        /\ inv[id].messages # <<>>
        /\ DOMAIN inv[id].idToNameMap # {}
        /\ Len(PostsBy(id)) = 2
        /\ PostsBy(id)[1].text.missingCount = 0

-----------------------------------------------------------------------------
(* Claims about the order of the calls and about a failed call             *)

\* The stage an invocation is in: the collaborator whose answer it awaits.
StageOf(pc) ==
    CASE pc = "scheduled" -> 0
      [] pc = "await_usergroup" -> 1
      [] pc = "await_history" -> 2
      [] pc = "await_users" -> 3
      [] pc \in {"await_parent", "await_nobody_reply", "await_chunk_reply"} -> 4
      [] pc = "done" -> 5
      [] OTHER -> 6

\* What a step may do to one invocation, for the calls to be in order.
CallsInOrder(id) ==
    LET r == inv[id]
        r2 == inv'[id]
    IN  \* a stage is entered only from the stage before it ...
        /\ r2.pc # "failed" => StageOf(r2.pc) \in {StageOf(r.pc), StageOf(r.pc) + 1}
        \* ... history after the group has answered,
        /\ (r2.pc = "await_history" /\ r.pc # "await_history") =>
              r.pc = "await_usergroup"
        \* the directory after a history page that carried no cursor,
        /\ (r2.pc = "await_users" /\ r.pc # "await_users") =>
              (r.pc = "await_history" /\ r2.cursor = 0)
        \* the parent after a directory page that carried no cursor;
        /\ (r2.pc = "await_parent" /\ r.pc # "await_parent") =>
              (r.pc = "await_users" /\ r2.dirCursor = 0)
        \* a failed call is the call of the stage, and ends the invocation;
        /\ (r2.pc = "failed" /\ r.pc # "failed") => r2.failedAt = r.pc
        \* a message is accepted only for an invocation that has left the
        \* directory stage, and the map it had then is the map it keeps.
        /\ PostsBy(id)' # PostsBy(id) =>
              (StageOf(r.pc) = 4 /\ r.cursor = 0 /\ r.dirCursor = 0)
        /\ StageOf(r.pc) \in {4, 5} =>
              (r2.idToNameMap = r.idToNameMap /\ r2.missingUserIds = r.missingUserIds)

\* C14: within one invocation the collaborator calls occur in pipeline
\* order, each stage starting only after the previous one completed: the
\* first history request follows the group answer, the first directory
\* request follows the history page without cursor, the parent post follows
\* the directory page without cursor, and no message is posted before the
\* name map is complete.
C14_CallsInPipelineOrder == [][\A id \in DOMAIN inv : CallsInOrder(id)]_vars

\* An invocation is publishing after two history pages and two directory
\* pages.
C14_Witness ==
    \E id \in DOMAIN inv :
        /\ inv[id].pc \in {"await_chunk_reply", "done"}
        /\ Len(inv[id].messages) >= 3
        /\ {IdA, BigId(2 * chunkSize)} \subseteq DOMAIN inv[id].idToNameMap
        /\ PostsBy(id) # <<>>

\* An invocation one of whose collaborator calls has failed is over, and its
\* caller has caught and logged the exception.
FailureCaught(id) ==
    inv[id].failedAt # "" =>
        /\ inv[id].pc = "failed"
        /\ inv[id].failedAt \in AwaitStates
        /\ id \in proc.errors
        /\ proc.uncaught = {}

\* C16: after a collaborator call of an invocation has failed, the
\* invocation makes no further call (its position and locals never change
\* again and nothing more is posted for it), and the exception was caught by
\* the job that called it: nothing escapes uncaught.
C16_FailedInvocationIsOver ==
    [][\A id \in DOMAIN inv :
          /\ FailureCaught(id)'
          /\ inv[id].failedAt # "" =>
                (inv'[id] = inv[id] /\ PostsBy(id)' = PostsBy(id))]_vars

\* The history call of the check-out job has failed and the job logged it.
C16_Witness ==
    \E id \in DOMAIN inv :
        /\ inv[id].pc = "failed"
        /\ inv[id].failedAt = "await_history"
        /\ inv[id].caller = "cron"
        /\ proc.errors = {id}

-----------------------------------------------------------------------------
(* Claims about the history listing                                        *)

RECURSIVE PagesPutTogether(_)
\* The messages of a sequence of pages, in page order.
PagesPutTogether(pages) ==
    IF pages = <<>> THEN <<>>
    ELSE Head(pages) \o PagesPutTogether(Tail(pages))

\* C15: fetchAllMessagesInRange sends its first request without cursor and
\* every later one with the cursor of the response before it; it has
\* returned only when the latest response carried no cursor, and no earlier
\* response did (it never stops early, and never without such a response);
\* the messages it holds are those of every page received, in page order.
\* Against a chain of k pages whose last carries no cursor it makes never
\* more than k requests, has returned once the k-th response is in, and
\* returns the messages of the whole chain.
C15_FetchFollowsTheCursorChain ==
    (fnRet # NoCall /\ fnRet.fn = "fetchAllMessagesInRange") =>
        LET k == Len(fnArg.chain)
            sent == fnRet.requests
            got == fnRet.received
            PageOf(j) == fnArg.chain[IF sent[j] = 0 THEN 1 ELSE sent[j]]
        IN  /\ sent[1] = 0
            /\ \A j \in 2..Len(sent) : sent[j] = got[j - 1] /\ sent[j] # 0
            /\ Len(sent) = Len(got) + (IF fnRet.pc = "returned" THEN 0 ELSE 1)
            /\ fnRet.messages = PagesPutTogether([j \in 1..Len(got) |-> PageOf(j)])
            /\ fnRet.pc = "returned" <=> (got # <<>> /\ got[Len(got)] = 0)
            /\ \A j \in 1..(Len(got) - 1) : got[j] # 0
            /\ fnArg.last = 0 =>
                  /\ Len(sent) <= k
                  /\ \A j \in 1..Len(sent) : sent[j] = (IF j = 1 THEN 0 ELSE j)
                  /\ Len(got) = k => fnRet.pc = "returned"
                  /\ fnRet.pc = "returned" =>
                        /\ Len(sent) = k
                        /\ fnRet.messages = PagesPutTogether(fnArg.chain)
            /\ fnArg.last # 0 => fnRet.pc # "returned"

\* A chain of three pages has been listed with three requests, and the
\* messages of its first and last page are both there.
C15_Witness ==
    /\ fnRet # NoCall
    /\ fnRet.fn = "fetchAllMessagesInRange"
    /\ fnRet.pc = "returned"
    /\ fnArg.chain = <<<<MsgAthenB>>, <<>>, <<MsgZ, MsgPlain>>>>
    /\ fnRet.requests = <<0, 2, 3>>
    /\ fnRet.messages = <<MsgAthenB, MsgZ, MsgPlain>>

-----------------------------------------------------------------------------
(* Claims about the names                                                  *)

\* The first non-empty of a non-empty sequence of strings whose last is
\* not empty.
FirstNonEmpty(candidates) ==
    LET first == CHOOSE k \in DOMAIN candidates :
                    /\ candidates[k] # <<>>
                    /\ \A j \in 1..(k - 1) : candidates[j] = <<>>
    IN  candidates[first]

\* C18: every directory entry that has an identifier is mapped (the last
\* entry listed for an identifier being the one that counts) to the first
\* non-empty of its profile display name, profile real name, legacy real
\* name, handle and identifier, and nothing else is in the map; the name
\* written for an identity is its mapped name, or the identity itself when
\* the map has no entry for it, and is never empty.
C18_NamePriorityAndFallback ==
    (fnRet # NoCall /\ fnRet.fn = "buildUserIdToNameMap") =>
        LET members == fnArg.members
            map == fnRet.map
        IN  /\ DOMAIN map = {members[k].id : k \in DOMAIN members} \ {<<>>}
            /\ \A k \in DOMAIN members :
                  LET u == members[k]
                  IN  (/\ u.id # <<>>
                       /\ \A j \in (k + 1)..Len(members) : members[j].id # u.id) =>
                         map[u.id] = FirstNonEmpty(<<u.display_name, u.profile_real_name,
                                                     u.real_name, u.name, u.id>>)
            /\ Len(fnRet.names) = Len(fnArg.userIds)
            /\ \A j \in DOMAIN fnArg.userIds :
                  LET uid == fnArg.userIds[j]
                  IN  /\ fnRet.names[j] = (IF uid \in DOMAIN map THEN map[uid] ELSE uid)
                      /\ fnRet.names[j] # <<>>

\* One entry has only a legacy real name and a handle, the other no name
\* at all: the first is shown by its real name, the second and an identity
\* the directory does not list by their identifiers.
C18_Witness ==
    /\ fnRet # NoCall
    /\ fnRet.fn = "buildUserIdToNameMap"
    /\ fnArg.members = <<User(IdA, <<>>, <<>>, <<"r">>, <<"h">>),
                         User(IdB, <<>>, <<>>, <<>>, <<>>)>>
    /\ fnRet.names = <<<<"r">>, IdB, IdC>>

-----------------------------------------------------------------------------
(* Claims about the boot routine and about several invocations             *)

BootChecks == {"BOOT_OUT", "BOOT_IN"} \cap DOMAIN inv

\* The channels the checks monitor.
ReportChannels == {cfg.REPORT_CHANNEL_OUT, cfg.REPORT_CHANNEL_IN} \ {""}

\* With RUN_ON_BOOT and no test destination the boot routine runs no check:
\* its checks are never started, so they make no call and post nothing; once
\* it has returned it has logged the warning, nothing escaped uncaught and
\* the jobs are registered.
BootRefusesWithoutTestDestination ==
    (cfg.RUN_ON_BOOT /\ cfg.TEST_NOTIFY_CHANNEL = "") =>
        /\ \A b \in BootChecks : inv[b].pc = "scheduled" /\ PostsBy(b) = <<>>
        /\ proc.main \in {"boot", "returned"}
        /\ proc.uncaught = {} /\ proc.errors \cap BootChecks = {}
        /\ proc.main = "returned" =>
              /\ "skip boot test" \in proc.warnings
              /\ proc.jobs = scheduleJobs(cfg)

\* C11 as stated: boot-time mode never posts to a production channel.
\* Without a test destination no boot check runs (only the warning, no
\* failure, the jobs registered); with one, every message of a boot-time
\* check is sent to the test destination and none to a monitored report
\* channel.
C11_BootNeverPostsToProduction ==
    /\ BootRefusesWithoutTestDestination
    /\ cfg.TEST_NOTIFY_CHANNEL # "" =>
          \A k \in DOMAIN channelLog :
              channelLog[k].by \in BootChecks =>
                  /\ channelLog[k].channel = cfg.TEST_NOTIFY_CHANNEL
                  /\ channelLog[k].channel \notin ReportChannels

\* C11, amended: without a test destination no boot check runs (only the
\* warning, no failure, the jobs registered); with one, every message of a
\* boot-time check, parent and replies, is sent to the configured test
\* destination, whatever that is: it is a monitored report channel exactly
\* when the test destination was configured to be that channel.
C11_BootPostsToTestDestination ==
    /\ BootRefusesWithoutTestDestination
    /\ cfg.TEST_NOTIFY_CHANNEL # "" =>
          \A k \in DOMAIN channelLog :
              channelLog[k].by \in BootChecks =>
                  /\ channelLog[k].channel = cfg.TEST_NOTIFY_CHANNEL
                  /\ (channelLog[k].channel \in ReportChannels) <=>
                        (cfg.TEST_NOTIFY_CHANNEL \in ReportChannels)

\* Both boot checks have published to the test channel, parent and reply
\* each, while both report channels are configured.
C11_Witness ==
    /\ cfg.RUN_ON_BOOT
    /\ cfg.TEST_NOTIFY_CHANNEL = TestNotifyChannel
    /\ proc.main = "returned"
    /\ \A b \in BootChecks :
          /\ inv[b].pc = "done"
          /\ Len(PostsBy(b)) = 2
          /\ PostsBy(b)[2].channel = TestNotifyChannel

\* C12: a collaborator failure in one invocation aborts only that
\* invocation.  Whatever has failed, a cron firing that is due (its job
\* registered, the firing before it over) can still start; and when the boot
\* routine has returned after its check-out check failed, with a check-in
\* channel configured, the check-in boot check that follows has been started.
C12_FailureAbortsOnlyThatInvocation ==
    \A id \in DOMAIN inv :
        inv[id].pc = "failed" =>
            /\ \A j \in DOMAIN inv \ {id} :
                  (/\ inv[j].caller = "cron"
                   /\ inv[j].pc = "scheduled"
                   /\ inv[j].label \in proc.jobs
                   /\ inv[j].after # "" => inv[inv[j].after].pc \in {"done", "failed"}) =>
                      ENABLED StartCheck(j)
            /\ (/\ inv[id].caller = "boot"
                /\ inv[id].after = ""
                /\ cfg.REPORT_CHANNEL_IN # ""
                /\ proc.main = "returned") =>
                  \A j \in DOMAIN inv :
                      (inv[j].caller = "boot" /\ inv[j].after = id) =>
                          inv[j].pc # "scheduled"

\* The texts of a sequence of posts.
TextsOf(posts) == [k \in DOMAIN posts |-> posts[k].text]

\* Two invocations are of the same check and received the same window,
\* group members, history and directory.
SameCheckSameInputs(a, b) ==
    /\ inv[a].label = inv[b].label
    /\ inv[a].reportChannelId = inv[b].reportChannelId
    /\ inv[a].reportDate = inv[b].reportDate
    /\ inv[a].startUnix = inv[b].startUnix
    /\ inv[a].endUnix = inv[b].endUnix
    /\ inv[a].rawTargetUserIds = inv[b].rawTargetUserIds
    /\ inv[a].messages = inv[b].messages
    /\ inv[a].idToNameMap = inv[b].idToNameMap

\* C13: two completed invocations of the same check that received the same
\* window, group members, history and directory have posted the same
\* sequence of message texts, parent then replies, to the same channel; the
\* later one posted its own messages (none of them is a message of the
\* earlier one), so nothing of it was suppressed.
C13_SameInputsSameTexts ==
    \A a, b \in DOMAIN inv :
        (a # b /\ inv[a].pc = "done" /\ inv[b].pc = "done" /\ SameCheckSameInputs(a, b)) =>
            /\ TextsOf(PostsBy(a)) = TextsOf(PostsBy(b))
            /\ Len(PostsBy(b)) >= 2
            /\ PostsBy(b)[1].text.kind = "parent"
            /\ \A k \in DOMAIN PostsBy(a) :
                  /\ PostsBy(a)[k].channel = PostsBy(b)[k].channel
                  /\ PostsBy(a)[k].ts # PostsBy(b)[k].ts

\* The check-out job has fired twice with the same answers, one member
\* outstanding each time, and the channel holds both notifications.
C13_Witness ==
    /\ inv["OUT"].pc = "done"
    /\ inv["OUT2"].pc = "done"
    /\ SameCheckSameInputs("OUT", "OUT2")
    /\ inv["OUT2"].missingUserIds = <<IdB>>
    /\ Len(PostsBy("OUT")) = 2
    /\ Len(PostsBy("OUT2")) = 2

\* What an invocation that runs alone posts, given the answers it received:
\* the parent for the missing list reconciled from its own group and
\* history, then the reply of an empty list or the chunk replies named
\* from its own directory map.
TextsWhenAlone(r) ==
    LET targets == targetUserIdsOf(r.rawTargetUserIds, cfg.EXCLUDE_SET)
        missing == missingUserIdsOf(targets, submittedUserIdsOf(r.messages, targets))
        chunks == (Len(missing) + chunkSize - 1) \div chunkSize
    IN  <<parentTextOf(cfg.ADMIN_USERGROUP_ID, r.label, r.reportDate, missing)>>
        \o (IF missing = <<>> THEN <<NobodyText>>
            ELSE [c \in 1..chunks |->
                    chunkTextOf(missing, chunkSize * (c - 1), r.idToNameMap)])

\* C17: whatever the interleaving, what an invocation has posted so far is
\* the beginning (and, once it is done, the whole) of the texts it posts
\* when run alone with the answers it received, all in the channel it posts
\* to when alone; its replies are threaded under its own parent, which is
\* no other invocation's parent.
C17_InterleavingChangesNothing ==
    \A id \in DOMAIN inv :
        LET r == inv[id]
            posts == PostsBy(id)
            alone == TextsWhenAlone(r)
        IN  /\ posts # <<>> =>
                  /\ r.pc \in Publishing \cup {"failed"}
                  /\ Len(posts) <= Len(alone)
                  /\ \A k \in DOMAIN posts :
                        /\ posts[k].text = alone[k]
                        /\ posts[k].channel = notifyChannelOf(r)
                  /\ posts[1].ts = r.parentTs
                  /\ \A k \in 2..Len(posts) : posts[k].thread_ts = posts[1].ts
                  /\ \A j \in DOMAIN inv \ {id} :
                        PostsBy(j) # <<>> => PostsBy(j)[1].ts # posts[1].ts
            /\ r.pc = "done" => TextsOf(posts) = alone

\* A boot-time check and the scheduled check-out firing have published
\* with their posts alternating: parent, parent, reply, reply.
C17_Witness ==
    /\ Len(channelLog) >= 4
    /\ channelLog[1].by # channelLog[2].by
    /\ channelLog[3].by = channelLog[1].by
    /\ channelLog[4].by = channelLog[2].by
    /\ {channelLog[1].by, channelLog[2].by} \cap BootChecks # {}
    /\ inv[channelLog[1].by].pc = "done"
    /\ inv[channelLog[2].by].pc = "done"
    /\ inv[channelLog[1].by].missingUserIds # inv[channelLog[2].by].missingUserIds

=============================================================================
